---- MODULE Spec2Model ----
(***************************************************************************)
(* Checkerboard-swap Markov chains of src/src/weighted_swap.cpp:           *)
(*   simple_swap_n  (lines 34-94)   uniform sampler                         *)
(*   swap_n         (lines 113-216) weighted sampler with structural zeros  *)
(*                                                                         *)
(* Vertex ids are integers (the NumericVector entries are integer valued,  *)
(* so the double -> int conversions of lines 51, 69-72, 134, 140, 169-172  *)
(* keep the value).  Real numbers (weights ratios, the uniform draw, the   *)
(* base probability) are exact fractions <<numerator, denominator>>;       *)
(* <<1, 0>> is +infinity and <<0, 0>> is NaN, as IEEE division gives them. *)
(*                                                                         *)
(* The diagnostic columns of swap_n are written once per row and never     *)
(* read back; the model keeps the row of the iteration that ran last       *)
(* (row k-1) and the number k of rows written.                             *)
(***************************************************************************)
EXTENDS Integers, Sequences, FiniteSets, TLC

VARIABLES
  entry,                \* which exported function runs: "simple_swap_n" | "swap_n"
  Re_from, Re_to,       \* the caller's edge vectors (inputs, never written)
  n,                    \* number of swap attempts
  swap_p,               \* simple_swap_n's base probability (a fraction)
  Rw,                   \* swap_n's weight matrix
  Rz_from, Rz_to,       \* swap_n's structural-zero vectors
  seed,                 \* the seed argument
  end_shared,           \* build: do end() iterators of two hash sets compare equal
  e_from, e_to,         \* the edge list being rewired
  edgeSet, zeroSet,     \* the two hash sets
  i, j, k,              \* sampled indices and the loop counter
  same_edge, is_checkerboard, is_not_struct_zeros, can_swap, did_swap, swap_ps,
                        \* row k-1 of the diagnostic columns
  gen,                  \* number of values drawn from the generator so far
  pc,                   \* "loop" | "done" | "crashed"
  run2,                 \* a second run of the same call (seed determinism), or NoRun
  tape                  \* generator outputs drawn by one run and not yet by the other

inputs == <<entry, Re_from, Re_to, n, swap_p, Rw, Rz_from, Rz_to, seed, end_shared>>
run1 == <<e_from, e_to, edgeSet, zeroSet, i, j, k, same_edge, is_checkerboard,
          is_not_struct_zeros, can_swap, did_swap, swap_ps, gen, pc>>
vars == <<inputs, run1, run2, tape>>

----------------------------------------------------------------------------
(* Bounds of the model *)

MaxM == 3      \* edges in the list
MaxN == 2      \* swap attempts
MaxZ == 3      \* entries of the structural-zero vectors

(* Program constant: the seed value that asks for std::random_device *)
SeedSentinel == -1

(* Vertex ids: tails of edges (rows of the adjacency matrix) and heads    *)
(* (columns).  Every tail id is a head id too, so self-loops exist.       *)
FromIds == {0, 1}
ToIds == {0, 1, 2}
Pairs == FromIds \X ToIds
Seeds == {SeedSentinel, 1}

----------------------------------------------------------------------------
(* Real arithmetic *)

RECURSIVE Gcd(_, _)
Gcd(x, y) == IF y = 0 THEN x ELSE Gcd(y, x % y)

(* The double num/den, num >= 0 and den >= 0 *)
Ratio(num, den) ==
  IF den = 0 THEN (IF num = 0 THEN <<0, 0>> ELSE <<1, 0>>)
  ELSE LET g == Gcd(num, den) IN <<num \div g, den \div g>>

Zero == <<0, 1>>

(* u < r for a finite u >= 0: false against NaN, true against +infinity *)
Less(u, r) == IF r[2] = 0 THEN r[1] > 0 ELSE u[1] * r[2] < r[1] * u[2]

(* The values uniform_real_distribution(0.0, 1.0) returns lie in [0, 1) *)
UVals == {<<0, 2>>, <<1, 2>>}

(* Base probabilities handed to simple_swap_n *)
SwapPVals == {<<0, 1>>, <<1, 2>>, <<1, 1>>}

(* Weight matrices handed to swap_n: one weight on the diagonal, one off it *)
WeightMatrices ==
  {[p \in Pairs |-> IF p[1] = p[2] THEN x[1] ELSE x[2]] :
     x \in {<<1, 1>>, <<2, 1>>, <<0, 1>>, <<0, 0>>}}

(* Structural zeros handed to swap_n: cells of the diagonal (no self-loops) *)
ZeroCells == {p \in Pairs : p[1] = p[2]}

(* Row-major order of the cells of the adjacency matrix *)
Before(p, q) == p[1] < q[1] \/ (p[1] = q[1] /\ p[2] < q[2])

(* The edge lists handed in: m >= 1 edges, no ordered pair twice, listed in *)
(* row-major order (slots are sampled uniformly, so the order of the input  *)
(* is immaterial; every order arises once swaps have been made).            *)
EdgeLists ==
  UNION {{L \in [0..(m - 1) -> Pairs] :
            \A x \in 0..(m - 2) : Before(L[x], L[x + 1])} : m \in 1..MaxM}

(* The structural-zero lists handed in *)
ZeroLists == UNION {[0..(lz - 1) -> ZeroCells] : lz \in 0..MaxZ}

----------------------------------------------------------------------------
(* Construction *)

(* lines 49-52, 132-135 *)
BuildEdgeSet(ef, et) == {<<ef[x], et[x]>> : x \in DOMAIN ef}

(* What an out-of-bounds read of z_from[x], z_to[x] can yield: any pair of   *)
(* ints, one of the vertex pairs or not.                                     *)
GarbagePairs == Pairs \cup {<<-1, -1>>}

(* lines 138-141: the loop runs over the m edges, not over the zeros.  The  *)
(* values zeroSet can hold after it.                                        *)
BuildZeroSets(m, zf, zt) ==
  LET lz == Cardinality(DOMAIN zf)
      read == {<<zf[x], zt[x]>> : x \in {y \in DOMAIN zf : y < m}}
  IN IF lz >= m THEN {read}
     ELSE {read \cup G : G \in {H \in SUBSET GarbagePairs :
                                  Cardinality(H) >= 1 /\ Cardinality(H) <= m - lz}}

NoRun == [pc |-> "absent"]

Cur ==
  [e_from |-> e_from, e_to |-> e_to, edgeSet |-> edgeSet, zeroSet |-> zeroSet,
   i |-> i, j |-> j, k |-> k, same_edge |-> same_edge,
   is_checkerboard |-> is_checkerboard, is_not_struct_zeros |-> is_not_struct_zeros,
   can_swap |-> can_swap, did_swap |-> did_swap, swap_ps |-> swap_ps,
   gen |-> gen, pc |-> pc]

SetCur(t) ==
  /\ e_from' = t.e_from /\ e_to' = t.e_to
  /\ edgeSet' = t.edgeSet /\ zeroSet' = t.zeroSet
  /\ i' = t.i /\ j' = t.j /\ k' = t.k
  /\ same_edge' = t.same_edge /\ is_checkerboard' = t.is_checkerboard
  /\ is_not_struct_zeros' = t.is_not_struct_zeros
  /\ can_swap' = t.can_swap /\ did_swap' = t.did_swap /\ swap_ps' = t.swap_ps
  /\ gen' = t.gen /\ pc' = t.pc

(* The state of a run on entering the loop (lines 36-59, 115-158).  i and j *)
(* are declared without a value and written before they are read: -1.       *)
StartRun(ef, et, Z, p) ==
  [e_from |-> ef, e_to |-> et, edgeSet |-> BuildEdgeSet(ef, et), zeroSet |-> Z,
   i |-> -1, j |-> -1, k |-> 0, same_edge |-> FALSE, is_checkerboard |-> FALSE,
   is_not_struct_zeros |-> FALSE, can_swap |-> FALSE, did_swap |-> FALSE,
   swap_ps |-> Zero, gen |-> 0, pc |-> p]
----------------------------------------------------------------------------
(* The tests and updates of one loop iteration, on the edges               *)
(* (a, b) = (e_from[i], e_to[i]) and (c, d) = (e_from[j], e_to[j])          *)

(* The test with the two completion edges looked up reversed *)
FoundInEdgeSet_Reversed(S, a, b, c, d) == <<d, a>> \in S \/ <<b, c>> \in S

(* The test as it would be if a self-loop counted as an existing edge *)
FoundInEdgeSet_NoSelfLoops(S, a, b, c, d) ==
  a = d \/ c = b \/ <<a, d>> \in S \/ <<c, b>> \in S

(* Mutant: only the first of the two lookups is made *)
FoundInEdgeSet_FirstOnly(S, a, b, c, d) == <<a, d>> \in S

(* lines 174-175 (and, negated, 74-75): (a,d) or (c,b) is in the edge set *)
FoundInEdgeSet(S, a, b, c, d) == <<a, d>> \in S \/ <<c, b>> \in S

(* line 180: zeroSet.find(p) != edgeSet.end().  An iterator to an element   *)
(* of zeroSet differs from every end(); zeroSet.end() equals edgeSet.end()  *)
(* only in builds whose end iterators are all alike (comparing iterators of *)
(* two containers is undefined).                                            *)
ZeroFindNotEdgeEnd(Z, p, shared) == IF p \in Z THEN TRUE ELSE ~shared

(* lines 180-181: the first lookup is in zeroSet, the second in edgeSet *)
FoundStructZero(Z, S, a, b, c, d, shared) ==
  ZeroFindNotEdgeEnd(Z, <<a, d>>, shared) \/ <<c, b>> \in S

(* The commit in the hash set with the inserts left out *)
SwapInHashSet_NoInsert(S, a, b, c, d) == (S \ {<<a, b>>}) \ {<<c, d>>}

(* The commit in the hash set with the second insert left out *)
SwapInHashSet_OneInsert(S, a, b, c, d) ==
  ((S \cup {<<a, d>>}) \ {<<a, b>>}) \ {<<c, d>>}

(* Mutant: the two erase calls are missing *)
SwapInHashSet_NoErase(S, a, b, c, d) == (S \cup {<<a, d>>}) \cup {<<c, b>>}

(* lines 80-83, 196-199 *)
SwapInHashSet(S, a, b, c, d) ==
  (((S \cup {<<a, d>>}) \cup {<<c, b>>}) \ {<<a, b>>}) \ {<<c, d>>}

(* Mutants: both slots get e_from_j;                                         *)
(* the second assignment is missing; each slot gets its own old             *)
(* value back; slot j gets e_to_j instead of e_from_i                        *)
SwapInEdgeList_BothFromJ(ef, ii, jj, a, b, c, d) == [ef EXCEPT ![ii] = c, ![jj] = c]
SwapInEdgeList_OneSided(ef, ii, jj, a, b, c, d) == [ef EXCEPT ![ii] = c]
SwapInEdgeList_SelfAssign(ef, ii, jj, a, b, c, d) == [ef EXCEPT ![ii] = a, ![jj] = c]
SwapInEdgeList_ToForFrom(ef, ii, jj, a, b, c, d) == [ef EXCEPT ![ii] = c, ![jj] = d]

(* lines 85-86, 201-202: e_from[i] = e_from_j; e_from[j] = e_from_i.  Only    *)
(* the from fields of the two slots are written.                             *)
SwapInEdgeList(ef, ii, jj, a, b, c, d) == [ef EXCEPT ![ii] = c, ![jj] = a]

(* lines 188-190 *)
SwapProb(W, a, b, c, d) ==
  LET w_pre == W[<<a, b>>] * W[<<c, d>>]
      w_post == W[<<a, d>>] * W[<<c, b>>]
  IN Ratio(w_post, w_pre)

(* The comparison as it would be if the draw u were ignored *)
Accepts_WithoutDraw(u, p) == Less(Zero, p)

(* The comparison as it would be if an infinite ratio never accepted *)
Accepts_FiniteOnly(u, p) == p[2] # 0 /\ Less(u, p)

(* lines 78, 193 *)
Accepts(u, p) == Less(u, p)

(* lines 61-89: one iteration of simple_swap_n's loop with draws ii, jj, u *)
simple_swap_n_body(s, p, ii, jj, u) ==
  LET a == s.e_from[ii]
      b == s.e_to[ii]
      c == s.e_from[jj]
      d == s.e_to[jj]
      t0 == [s EXCEPT !.i = ii, !.j = jj, !.k = s.k + 1, !.gen = s.gen + 2]
      t1 == [t0 EXCEPT !.gen = s.gen + 3]
  IN IF ii = jj THEN t0
     ELSE IF FoundInEdgeSet(s.edgeSet, a, b, c, d) THEN t0
     ELSE IF Accepts(u, p)
          THEN [t1 EXCEPT !.edgeSet = SwapInHashSet(s.edgeSet, a, b, c, d),
                          !.e_from = SwapInEdgeList(s.e_from, ii, jj, a, b, c, d)]
          ELSE t1

(* lines 153-158: the row of an iteration as the column constructors leave it *)
BlankRow(s) ==
  [s EXCEPT !.same_edge = FALSE, !.is_checkerboard = FALSE,
            !.is_not_struct_zeros = FALSE, !.can_swap = FALSE,
            !.did_swap = FALSE, !.swap_ps = Zero]

(* lines 160-204: one iteration of swap_n's loop with draws ii, jj, u *)
swap_n_body(s, W, shared, ii, jj, u) ==
  LET a == s.e_from[ii]
      b == s.e_to[ii]
      c == s.e_from[jj]
      d == s.e_to[jj]
      t0 == [BlankRow(s) EXCEPT !.i = ii, !.j = jj, !.k = s.k + 1, !.gen = s.gen + 2]
      p == SwapProb(W, a, b, c, d)
      t1 == [t0 EXCEPT !.can_swap = TRUE, !.swap_ps = p, !.gen = s.gen + 3]
  IN IF ii = jj THEN [t0 EXCEPT !.same_edge = TRUE]
     ELSE IF FoundInEdgeSet(s.edgeSet, a, b, c, d)
          THEN [t0 EXCEPT !.is_checkerboard = FALSE]
     ELSE IF FoundStructZero(s.zeroSet, s.edgeSet, a, b, c, d, shared)
          THEN [t0 EXCEPT !.is_not_struct_zeros = FALSE]
     ELSE IF Accepts(u, p)
          THEN [t1 EXCEPT !.did_swap = TRUE,
                          !.edgeSet = SwapInHashSet(s.edgeSet, a, b, c, d),
                          !.e_from = SwapInEdgeList(s.e_from, ii, jj, a, b, c, d)]
          ELSE t1

(* lines 45, 127: uniform_int_distribution(0, m-1) *)
RandIntVals(m) == 0..(m - 1)

----------------------------------------------------------------------------
(* Initial states: the call has been made and the loop is about to start *)

(* ForbiddenSet of the caller: every pair of the zero vectors *)
ForbiddenSet == {<<Rz_from[x], Rz_to[x]>> : x \in DOMAIN Rz_from}

InitInputs(seeds) ==
  /\ entry \in {"simple_swap_n", "swap_n"}
  /\ n \in 0..MaxN
  /\ seed \in seeds
  /\ \E L \in EdgeLists :
       /\ Re_from = [x \in DOMAIN L |-> L[x][1]]
       /\ Re_to = [x \in DOMAIN L |-> L[x][2]]
       /\ IF entry = "simple_swap_n"
          THEN /\ swap_p \in SwapPVals
               /\ Rw = << >> /\ Rz_from = << >> /\ Rz_to = << >>
               /\ end_shared = TRUE
          ELSE /\ swap_p = Zero
               /\ Rw \in WeightMatrices
               /\ \E ZL \in ZeroLists :
                    /\ Cardinality(DOMAIN ZL) + 1 >= Cardinality(DOMAIN L)
                    /\ \A x \in DOMAIN L, y \in DOMAIN ZL : L[x] # ZL[y]
                    /\ Rz_from = [x \in DOMAIN ZL |-> ZL[x][1]]
                    /\ Rz_to = [x \in DOMAIN ZL |-> ZL[x][2]]
               /\ end_shared \in BOOLEAN

(* The runs the call can start.  The out-of-bounds reads of lines 139-141   *)
(* (fewer zeros than edges) give arbitrary values or end the process.       *)
StartRuns ==
  LET m == Cardinality(DOMAIN Re_from)
  IN IF entry = "simple_swap_n"
     THEN {StartRun(Re_from, Re_to, {}, "loop")}
     ELSE {StartRun(Re_from, Re_to, Z, "loop") : Z \in BuildZeroSets(m, Rz_from, Rz_to)}
          \cup (IF Cardinality(DOMAIN Rz_from) < m
                THEN {StartRun(Re_from, Re_to, {}, "crashed")} ELSE {})

Init ==
  /\ InitInputs({SeedSentinel})
  /\ \E r \in StartRuns :
       /\ e_from = r.e_from /\ e_to = r.e_to
       /\ edgeSet = r.edgeSet /\ zeroSet = r.zeroSet
       /\ i = r.i /\ j = r.j /\ k = r.k
       /\ same_edge = r.same_edge /\ is_checkerboard = r.is_checkerboard
       /\ is_not_struct_zeros = r.is_not_struct_zeros
       /\ can_swap = r.can_swap /\ did_swap = r.did_swap /\ swap_ps = r.swap_ps
       /\ gen = r.gen /\ pc = r.pc
  /\ run2 = NoRun
  /\ tape = << >>

----------------------------------------------------------------------------
(* Actions *)

(* simple_swap_n, lines 61-89: one pass of the loop *)
simple_swap_n_step ==
  /\ entry = "simple_swap_n" /\ pc = "loop" /\ k < n
  /\ \E ii \in RandIntVals(Cardinality(DOMAIN e_from)),
        jj \in RandIntVals(Cardinality(DOMAIN e_from)), u \in UVals :
       SetCur(simple_swap_n_body(Cur, swap_p, ii, jj, u))
  /\ UNCHANGED <<inputs, run2, tape>>

(* swap_n, lines 160-204: one pass of the loop *)
swap_n_step ==
  /\ entry = "swap_n" /\ pc = "loop" /\ k < n
  /\ \E ii \in RandIntVals(Cardinality(DOMAIN e_from)),
        jj \in RandIntVals(Cardinality(DOMAIN e_from)), u \in UVals :
       SetCur(swap_n_body(Cur, Rw, end_shared, ii, jj, u))
  /\ UNCHANGED <<inputs, run2, tape>>

(* lines 90-93, 206-215: the loop is over, the list is returned *)
return ==
  /\ pc = "loop" /\ k >= n
  /\ pc' = "done"
  /\ UNCHANGED <<inputs, e_from, e_to, edgeSet, zeroSet, i, j, k, same_edge,
                 is_checkerboard, is_not_struct_zeros, can_swap, did_swap,
                 swap_ps, gen, run2, tape>>

Next == simple_swap_n_step \/ swap_n_step \/ return

Spec == Init /\ [][Next]_vars
----------------------------------------------------------------------------
(* Vocabulary of the properties *)

Slots == DOMAIN e_from
EdgeAt(ef, et, x) == <<ef[x], et[x]>>
Count(f, v) == Cardinality({x \in DOMAIN f : f[x] = v})

(* The input edge list holds no ordered pair twice *)
SimpleInput ==
  \A x, y \in DOMAIN Re_from :
     x # y => EdgeAt(Re_from, Re_to, x) # EdgeAt(Re_from, Re_to, y)

(* No edge of the input is a structural zero of the caller *)
InputRespectsForbidden ==
  \A x \in DOMAIN Re_from : EdgeAt(Re_from, Re_to, x) \notin ForbiddenSet

(* The transition is one pass of the loop of the run (either function) *)
StepTaken == k' = k + 1

(* The pass committed a swap: the list or the edge set was written *)
Committed == StepTaken /\ (e_from' # e_from \/ edgeSet' # edgeSet)

----------------------------------------------------------------------------
(* C1  Degree preservation: in every state of simple_swap_n and of swap_n, *)
(* each vertex is the `from` of as many edges of the list as in the input, *)
(* and the `to` of as many edges as in the input.                          *)
C1_DegreePreservation ==
  /\ DOMAIN e_from = DOMAIN Re_from /\ DOMAIN e_to = DOMAIN Re_to
  /\ \A v \in FromIds : Count(e_from, v) = Count(Re_from, v)
  /\ \A v \in ToIds : Count(e_to, v) = Count(Re_to, v)

(* A run has committed a swap and rewired a list of three edges *)
C1_Witness == k >= 1 /\ e_from # Re_from /\ Cardinality(Slots) >= 3

(* C2  Index consistency: for a simple input of m edges, at every step     *)
(* boundary edgeSet is exactly the set of pairs held by the slots of the   *)
(* list, and has m elements.                                               *)
C2_IndexConsistency ==
  SimpleInput =>
    /\ edgeSet = {EdgeAt(e_from, e_to, x) : x \in Slots}
    /\ Cardinality(edgeSet) = Cardinality(DOMAIN Re_from)

(* The edge set after a committed swap, with an edge the swap left alone *)
C2_Witness ==
  /\ k >= 1 /\ edgeSet # BuildEdgeSet(Re_from, Re_to)
  /\ edgeSet \cap BuildEdgeSet(Re_from, Re_to) # {}

(* C3  Simplicity: for a simple input, no two distinct slots of the list   *)
(* hold the same ordered pair, after every step of either function.        *)
C3_Simplicity ==
  SimpleInput =>
    \A x, y \in Slots : x # y => EdgeAt(e_from, e_to, x) # EdgeAt(e_from, e_to, y)

(* Two steps of swap_n, the second one committed, on a list of three edges *)
C3_Witness ==
  /\ entry = "swap_n" /\ k = 2 /\ did_swap /\ Cardinality(Slots) >= 3

(* C4  Forbidden respect (as claimed): if no input edge is in the caller's *)
(* ForbiddenSet, no edge of swap_n's list is ever in the ForbiddenSet.     *)
C4_ForbiddenRespect ==
  (entry = "swap_n" /\ InputRespectsForbidden) =>
    \A x \in Slots : EdgeAt(e_from, e_to, x) \notin ForbiddenSet

(* C5  Diagnostic totality (as claimed): in every row written by swap_n    *)
(* exactly one of same_edge, ~is_checkerboard, ~is_not_struct_zeros,       *)
(* can_swap is true.                                                       *)
C5_DiagnosticTotality ==
  (entry = "swap_n" /\ k >= 1) =>
    Cardinality({c \in {<<1, same_edge>>, <<2, ~is_checkerboard>>,
                        <<3, ~is_not_struct_zeros>>, <<4, can_swap>>} : c[2]}) = 1

(* C6  is_checkerboard (as claimed): in a step of swap_n on two distinct   *)
(* indices, the row's is_checkerboard is false exactly when (a,d) or (c,b) *)
(* was in the edge set at that step.                                       *)
C6_IsCheckerboard ==
  [][(entry = "swap_n" /\ StepTaken /\ i' # j') =>
       ((is_checkerboard' = FALSE) <=>
          FoundInEdgeSet(edgeSet, e_from[i'], e_to[i'], e_from[j'], e_to[j']))]_vars

(* C7  did_swap: in every step of swap_n, did_swap of the row is true      *)
(* exactly when the step changed the edge list, and exactly when it        *)
(* changed the edge set; a step whose did_swap is false leaves both as     *)
(* they were; did_swap implies can_swap.                                   *)
C7_DidSwap ==
  [][(entry = "swap_n" /\ StepTaken) =>
       /\ did_swap' <=> (<<e_from', e_to'>> # <<e_from, e_to>>)
       /\ did_swap' <=> (edgeSet' # edgeSet)
       /\ ~did_swap' => (e_from' = e_from /\ e_to' = e_to /\ edgeSet' = edgeSet)
       /\ did_swap' => can_swap']_vars

(* A row whose proposal was evaluated and then not accepted, after a row   *)
(* that was committed                                                      *)
C7_Witness ==
  /\ entry = "swap_n" /\ k = 2 /\ can_swap /\ ~did_swap /\ e_from # Re_from

(* C8  Self-loop immunity (as claimed): an input without self-loops never  *)
(* gets one.                                                               *)
C8_SelfLoopImmunity ==
  (\A x \in DOMAIN Re_from : Re_from[x] # Re_to[x]) =>
    \A x \in Slots : e_from[x] # e_to[x]

(* C8 (amended)  A step puts a self-loop into a slot only by committing a  *)
(* swap of edges (a,b), (c,d) with c = b (slot i) or a = d (slot j): the   *)
(* checkerboard test does not look at it.  Every other slot, and every     *)
(* step that commits edges with a # d and c # b, gains no self-loop.       *)
C8_SelfLoopOnlyHeadToTail ==
  [][StepTaken =>
       \A x \in Slots :
          (e_from'[x] = e_to'[x] /\ e_from[x] # e_to[x]) =>
             /\ Committed
             /\ \/ (x = i' /\ e_from[j'] = e_to[i'])
                \/ (x = j' /\ e_from[i'] = e_to[j'])]_vars

(* An input without self-loops has been rewired into one with a self-loop *)
C8_Witness ==
  /\ \A x \in DOMAIN Re_from : Re_from[x] # Re_to[x]
  /\ \E x \in Slots : e_from[x] = e_to[x]
----------------------------------------------------------------------------
(* Stationary weight of an edge list: the product of the weights of its edges *)
RECURSIVE ProdW(_, _, _, _)
ProdW(W, ef, et, len) ==
  IF len = 0 THEN 1 ELSE W[<<ef[len - 1], et[len - 1]>>] * ProdW(W, ef, et, len - 1)

(* Acceptance probability of a proposal whose ratio is r: min(1, r), since *)
(* the step commits when u < r for u uniform on [0, 1)                      *)
Alpha(r) ==
  IF r[2] = 0 THEN (IF r[1] > 0 THEN <<1, 1>> ELSE Zero)
  ELSE IF r[1] >= r[2] THEN <<1, 1>> ELSE r

PositiveWeights == \A p \in DOMAIN Rw : Rw[p] > 0

(* C9  Detailed balance (as claimed): when a step of swap_n on (i,j)       *)
(* commits and takes the list G to G', the same pair (i,j) proposed in G'  *)
(* passes both tests of swap_n and its commit gives G back; and, for       *)
(* positive weights, W(G) * alpha(G->G') = W(G') * alpha(G'->G).           *)
C9_DetailedBalance ==
  [][(entry = "swap_n" /\ StepTaken /\ did_swap' /\ PositiveWeights
        /\ InputRespectsForbidden) =>
       LET a2 == e_from'[i']
           b2 == e_to'[i']
           c2 == e_from'[j']
           d2 == e_to'[j']
           fwd == Alpha(swap_ps')
           rev == Alpha(SwapProb(Rw, a2, b2, c2, d2))
           len == Cardinality(Slots)
       IN /\ ~FoundInEdgeSet(edgeSet', a2, b2, c2, d2)
          /\ ~FoundStructZero(zeroSet', edgeSet', a2, b2, c2, d2, end_shared)
          /\ SwapInEdgeList(e_from', i', j', a2, b2, c2, d2) = e_from
          /\ SwapInHashSet(edgeSet', a2, b2, c2, d2) = edgeSet
          /\ ProdW(Rw, e_from, e_to, len) * fwd[1] * rev[2]
               = ProdW(Rw, e_from', e_to', len) * rev[1] * fwd[2]]_vars
----------------------------------------------------------------------------
(* Two runs of the same call, one after the other.  std::mt19937 gen(seed) *)
(* is a function of the seed: the two runs read the same stream of         *)
(* outputs, each at its own position (gen).  tape holds the outputs one    *)
(* run has drawn and the other has not yet.  With the sentinel seed each   *)
(* run is seeded by std::random_device and the streams are unrelated       *)
(* (lines 40-44, 122-126).                                                 *)

RawVals == 0..(MaxM - 1)
RandInt(r, m) == r % m                  \* lines 45, 127: randint(gen)
RandU(r) == <<r % 2, 2>>                \* lines 46, 128: randu(gen)

Min(x, y) == IF x <= y THEN x ELSE y
Max(x, y) == IF x >= y THEN x ELSE y

(* One pass of the loop of run s on the generator outputs r[1], r[2], r[3] *)
PassOf(s, r) ==
  LET m == Cardinality(DOMAIN s.e_from)
  IN IF entry = "swap_n"
     THEN swap_n_body(s, Rw, end_shared, RandInt(r[1], m), RandInt(r[2], m), RandU(r[3]))
     ELSE simple_swap_n_body(s, swap_p, RandInt(r[1], m), RandInt(r[2], m), RandU(r[3]))

(* The outputs r are what a run at position g reads from the stream *)
TapeAllows(g, other, r) ==
  \/ seed = SeedSentinel
  \/ \A q \in 1..3 :
       (g + q - Min(g, other) <= Len(tape)) => r[q] = tape[g + q - Min(g, other)]

(* The tape once a run has moved from position g to g2 reading r *)
NewTape(g, g2, other, r) ==
  IF seed = SeedSentinel THEN tape
  ELSE LET lag == Min(g, other)
           top == Max(g2, lag + Len(tape))
           ext == [p \in 1..(top - lag) |->
                     IF p <= Len(tape) THEN tape[p] ELSE r[lag + p - g]]
       IN SubSeq(ext, Min(g2, other) - lag + 1, top - lag)

(* The calls made twice: up to two edges, all weights equal *)
PairInit ==
  /\ InitInputs(Seeds)
  /\ Cardinality(DOMAIN Re_from) <= 2
  /\ entry = "swap_n" => \A p \in Pairs : Rw[p] = 1
  /\ \E r \in StartRuns :
       /\ e_from = r.e_from /\ e_to = r.e_to
       /\ edgeSet = r.edgeSet /\ zeroSet = r.zeroSet
       /\ i = r.i /\ j = r.j /\ k = r.k
       /\ same_edge = r.same_edge /\ is_checkerboard = r.is_checkerboard
       /\ is_not_struct_zeros = r.is_not_struct_zeros
       /\ can_swap = r.can_swap /\ did_swap = r.did_swap /\ swap_ps = r.swap_ps
       /\ gen = r.gen /\ pc = r.pc
  /\ run2 \in StartRuns
  /\ tape = << >>

(* One pass of the loop of the first run *)
pass1 ==
  /\ pc = "loop" /\ k < n
  /\ \E r \in [1..3 -> RawVals] :
       /\ TapeAllows(gen, run2.gen, r)
       /\ SetCur(PassOf(Cur, r))
       /\ tape' = NewTape(gen, PassOf(Cur, r).gen, run2.gen, r)
  /\ UNCHANGED <<inputs, run2>>

(* One pass of the loop of the second run, made once the first is over *)
pass2 ==
  /\ pc # "loop" /\ run2.pc = "loop" /\ run2.k < n
  /\ \E r \in [1..3 -> RawVals] :
       /\ TapeAllows(run2.gen, gen, r)
       /\ run2' = PassOf(run2, r)
       /\ tape' = NewTape(run2.gen, PassOf(run2, r).gen, gen, r)
  /\ UNCHANGED <<inputs, run1>>

(* The second run returns *)
return2 ==
  /\ pc # "loop" /\ run2.pc = "loop" /\ run2.k >= n
  /\ run2' = [run2 EXCEPT !.pc = "done"]
  /\ UNCHANGED <<inputs, run1, tape>>

PairNext == pass1 \/ pass2 \/ return \/ return2

PairSpec == PairInit /\ [][PairNext]_vars

(* C10  Seed determinism (as claimed): two runs of the same call with the  *)
(* same seed other than the sentinel, once they have made the same number  *)
(* of steps, have sampled the same indices, written the same diagnostic    *)
(* row and hold the same edge list; so they return the same lists and      *)
(* columns.                                                                *)
C10_SeedDeterminism ==
  (seed # SeedSentinel /\ pc \in {"loop", "done"} /\ run2.pc \in {"loop", "done"}
     /\ k = run2.k) =>
    /\ e_from = run2.e_from /\ e_to = run2.e_to
    /\ i = run2.i /\ j = run2.j
    /\ same_edge = run2.same_edge /\ is_checkerboard = run2.is_checkerboard
    /\ is_not_struct_zeros = run2.is_not_struct_zeros
    /\ can_swap = run2.can_swap /\ did_swap = run2.did_swap
    /\ swap_ps = run2.swap_ps
----------------------------------------------------------------------------
(* The worked examples of the specification: the directed 3-cycle and the   *)
(* two disjoint edges, with their own vertex names, given to either         *)
(* function.  swap_n gets structural zeros out of (1,4) and (2,2).          *)

CaseIds == 1..4
CasePairs == CaseIds \X CaseIds
Triangle == [x \in 0..2 |-> <<<<1, 2>>, <<2, 3>>, <<3, 1>>>>[x + 1]]
TwoEdges == [x \in 0..1 |-> <<<<1, 2>>, <<3, 4>>>>[x + 1]]
CaseLists == {Triangle, TwoEdges}
CaseZeroCells == {<<1, 4>>, <<2, 2>>}
CaseZeroLists == UNION {[0..(lz - 1) -> CaseZeroCells] : lz \in 0..MaxZ}
CaseWeights == {[p \in CasePairs |-> 1]}

CaseInit ==
  /\ entry \in {"simple_swap_n", "swap_n"}
  /\ n \in 0..MaxN
  /\ seed = SeedSentinel
  /\ \E L \in CaseLists :
       /\ Re_from = [x \in DOMAIN L |-> L[x][1]]
       /\ Re_to = [x \in DOMAIN L |-> L[x][2]]
       /\ IF entry = "simple_swap_n"
          THEN /\ swap_p \in SwapPVals
               /\ Rw = << >> /\ Rz_from = << >> /\ Rz_to = << >>
               /\ end_shared = TRUE
          ELSE /\ swap_p = Zero
               /\ Rw \in CaseWeights
               /\ \E ZL \in CaseZeroLists :
                    /\ Cardinality(DOMAIN ZL) + 1 >= Cardinality(DOMAIN L)
                    /\ Rz_from = [x \in DOMAIN ZL |-> ZL[x][1]]
                    /\ Rz_to = [x \in DOMAIN ZL |-> ZL[x][2]]
               /\ end_shared \in BOOLEAN
  /\ \E r \in StartRuns :
       /\ e_from = r.e_from /\ e_to = r.e_to
       /\ edgeSet = r.edgeSet /\ zeroSet = r.zeroSet
       /\ i = r.i /\ j = r.j /\ k = r.k
       /\ same_edge = r.same_edge /\ is_checkerboard = r.is_checkerboard
       /\ is_not_struct_zeros = r.is_not_struct_zeros
       /\ can_swap = r.can_swap /\ did_swap = r.did_swap /\ swap_ps = r.swap_ps
       /\ gen = r.gen /\ pc = r.pc
  /\ run2 = NoRun
  /\ tape = << >>

CaseSpec == CaseInit /\ [][Next]_vars

InputIs(L) ==
  /\ Re_from = [x \in DOMAIN L |-> L[x][1]]
  /\ Re_to = [x \in DOMAIN L |-> L[x][2]]

ListIs(L) ==
  /\ e_from = [x \in DOMAIN L |-> L[x][1]]
  /\ e_to = [x \in DOMAIN L |-> L[x][2]]

(* C11  Triangle invariance (as claimed): started on the directed 3-cycle, *)
(* the edge list is never changed and did_swap is never set.               *)
C11_TriangleInvariance ==
  InputIs(Triangle) => (e_from = Re_from /\ e_to = Re_to /\ ~did_swap)

(* C11 (amended)  While the list is the directed 3-cycle, a step on two    *)
(* distinct edges (a,b), (c,d) never fails the checkerboard test: one      *)
(* completion edge is a self-loop and neither is an edge of the list.  So  *)
(* simple_swap_n draws u, swap_n reaches evaluation unless the structural- *)
(* zero test rejects, and a step that commits leaves a self-loop in the    *)
(* list.                                                                   *)
C11_TrianglePassesCheckerboard ==
  [][(ListIs(Triangle) /\ StepTaken /\ i' # j') =>
       LET a == e_from[i']
           b == e_to[i']
           c == e_from[j']
           d == e_to[j']
           edges == {EdgeAt(e_from, e_to, x) : x \in Slots}
       IN /\ <<a, d>> \notin edges /\ <<c, b>> \notin edges
          /\ a = d \/ c = b
          /\ entry = "simple_swap_n" => gen' = gen + 3
          /\ entry = "swap_n" =>
               \/ can_swap' /\ gen' = gen + 3
               \/ FoundStructZero(zeroSet, edgeSet, a, b, c, d, end_shared)
          /\ Committed => \E x \in Slots : e_from'[x] = e_to'[x]]_vars

(* The 3-cycle has been rewired *)
C11_Witness ==
  /\ InputIs(Triangle)
  /\ e_from # Re_from
  /\ \E x \in Slots : e_from[x] = e_to[x]

(* C12  Forbidden blocks swap (as claimed): a step of swap_n on two        *)
(* distinct edges (a,b), (c,d) with (a,d) or (c,b) in the ForbiddenSet     *)
(* writes is_not_struct_zeros, can_swap and did_swap false and leaves the  *)
(* edge list alone, whichever edge was sampled first.                      *)
C12_ForbiddenBlocksSwap ==
  [][(entry = "swap_n" /\ StepTaken /\ i' # j'
        /\ (<<e_from[i'], e_to[j']>> \in ForbiddenSet
              \/ <<e_from[j'], e_to[i']>> \in ForbiddenSet)) =>
       /\ ~is_not_struct_zeros' /\ ~can_swap' /\ ~did_swap'
       /\ e_from' = e_from /\ e_to' = e_to]_vars

(* C13  Two-edge chain: simple_swap_n started on [(1,2),(3,4)] with        *)
(* 0 < swap_p < 1 only ever holds the edge set {(1,2),(3,4)} or the edge   *)
(* set {(1,4),(3,2)}, in the index and in the list alike.                  *)
C13_TwoEdgeChain ==
  (entry = "simple_swap_n" /\ InputIs(TwoEdges)
     /\ Less(Zero, swap_p) /\ Less(swap_p, <<1, 1>>)) =>
    /\ edgeSet \in {{<<1, 2>>, <<3, 4>>}, {<<1, 4>>, <<3, 2>>}}
    /\ {EdgeAt(e_from, e_to, x) : x \in Slots} = edgeSet

(* The chain has reached the second edge set *)
C13_Witness ==
  /\ entry = "simple_swap_n" /\ InputIs(TwoEdges)
  /\ Less(Zero, swap_p) /\ Less(swap_p, <<1, 1>>)
  /\ edgeSet = {<<1, 4>>, <<3, 2>>}
  /\ k = 1

(* C14  Run completion (as claimed): a call of swap_n goes on until it     *)
(* returns; it has then made exactly n steps, one diagnostic row each, and *)
(* with n = 0 it returns the input edge list.                              *)
C14_RunCompletion ==
  entry = "swap_n" =>
    /\ pc = "done" \/ ENABLED Next
    /\ k <= n
    /\ pc = "done" => k = n
    /\ (pc = "done" /\ n = 0) => (e_from = Re_from /\ e_to = Re_to)

(* C15  Commit effect: when a step commits on slots i, j holding (a,b) and *)
(* (c,d), slot i then holds (c,b), slot j holds (a,d), no other slot has   *)
(* changed, and the edge index has lost exactly (a,b), (c,d) and gained    *)
(* exactly (a,d), (c,b).                                                   *)
C15_CommitEffect ==
  [][(StepTaken /\ (Committed \/ did_swap')) =>
       LET a == e_from[i']
           b == e_to[i']
           c == e_from[j']
           d == e_to[j']
       IN /\ i' # j'
          /\ EdgeAt(e_from', e_to', i') = <<c, b>>
          /\ EdgeAt(e_from', e_to', j') = <<a, d>>
          /\ \A x \in Slots \ {i', j'} :
               EdgeAt(e_from', e_to', x) = EdgeAt(e_from, e_to, x)
          /\ DOMAIN e_from' = Slots /\ DOMAIN e_to' = Slots
          /\ edgeSet \ edgeSet' = {<<a, b>>, <<c, d>>}
          /\ edgeSet' \ edgeSet = {<<a, d>>, <<c, b>>}
          /\ Cardinality({<<a, b>>, <<c, d>>, <<a, d>>, <<c, b>>}) = 4]_vars

(* A step has just committed in a list of three edges *)
C15_Witness ==
  /\ k = 1 /\ i # j
  /\ Cardinality(Slots) = 3
  /\ e_from # Re_from
  /\ EdgeAt(e_from, e_to, i) = <<Re_from[j], Re_to[i]>>
  /\ EdgeAt(e_from, e_to, j) = <<Re_from[i], Re_to[j]>>

(* C16  Shared-endpoint rejection: a step on two distinct slots whose      *)
(* edges (a,b), (c,d) have a = c or b = d fails the checkerboard test: no  *)
(* uniform number is drawn, nothing is committed, and swap_n writes        *)
(* can_swap and did_swap false.                                            *)
C16_SharedEndpointRejection ==
  [][(StepTaken /\ i' # j'
        /\ (e_from[i'] = e_from[j'] \/ e_to[i'] = e_to[j'])) =>
       /\ <<e_from[i'], e_to[j']>> \in edgeSet \/ <<e_from[j'], e_to[i']>> \in edgeSet
       /\ gen' = gen + 2
       /\ e_from' = e_from /\ e_to' = e_to /\ edgeSet' = edgeSet
       /\ ~can_swap' /\ ~did_swap']_vars

(* A step has sampled two distinct edges with a common endpoint and has    *)
(* drawn no uniform number                                                 *)
C16_Witness ==
  /\ k = 1 /\ i # j /\ gen = 2
  /\ e_from[i] = e_from[j] \/ e_to[i] = e_to[j]

(* C17  ForbiddenSet construction (as claimed): throughout a run of swap_n *)
(* the forbidden index holds exactly the pairs (z_from[x], z_to[x]) of     *)
(* every position x of the caller's vectors, whatever the number of edges. *)
C17_ForbiddenSetConstruction ==
  (entry = "swap_n" /\ pc \in {"loop", "done"}) => zeroSet = ForbiddenSet

(* C18  Certain acceptance: a step of swap_n that reaches evaluation with  *)
(* w_post >= w_pre > 0, or with w_pre = 0 < w_post, commits whatever u is, *)
(* and the swap_p it records is the ratio w_post / w_pre itself (above 1,  *)
(* or infinite), not a clamped value.                                      *)
C18_CertainAcceptance ==
  [][(entry = "swap_n" /\ StepTaken /\ can_swap') =>
       LET w_pre == Rw[<<e_from[i'], e_to[i']>>] * Rw[<<e_from[j'], e_to[j']>>]
           w_post == Rw[<<e_from[i'], e_to[j']>>] * Rw[<<e_from[j'], e_to[i']>>]
       IN /\ (w_pre > 0 /\ w_post >= w_pre) =>
               /\ did_swap' /\ e_from' # e_from
               /\ swap_ps'[2] > 0 /\ swap_ps'[1] * w_pre = w_post * swap_ps'[2]
          /\ (w_pre = 0 /\ w_post > 0) =>
               /\ did_swap' /\ e_from' # e_from
               /\ swap_ps' = <<1, 0>>]_vars

(* A step has met an infinite ratio *)
C18_Witness ==
  entry = "swap_n" /\ k >= 1 /\ can_swap /\ did_swap /\ swap_ps = <<1, 0>>

(* C19  Aperiodicity of the uniform chain: in every state of simple_swap_n *)
(* with 0 < swap_p < 1 from which a step is made, some sample leaves the   *)
(* edge list and the edge index as they are, and every proposal on two     *)
(* distinct edges that passes the checkerboard test has a draw u that      *)
(* rejects it.                                                             *)
C19_Aperiodicity ==
  (entry = "simple_swap_n" /\ pc = "loop" /\ k < n
     /\ Less(Zero, swap_p) /\ Less(swap_p, <<1, 1>>)) =>
    LET Rejects(ii, jj, u) ==
          LET t == simple_swap_n_body(Cur, swap_p, ii, jj, u)
          IN t.e_from = e_from /\ t.e_to = e_to /\ t.edgeSet = edgeSet
                /\ t.k = k + 1
    IN /\ \E ii \in Slots, jj \in Slots, u \in UVals : Rejects(ii, jj, u)
       /\ \A ii \in Slots, jj \in Slots :
            (ii # jj /\ ~FoundInEdgeSet(edgeSet, e_from[ii], e_to[ii],
                                        e_from[jj], e_to[jj])) =>
              \E u \in UVals : ~Less(u, swap_p) /\ Rejects(ii, jj, u)

(* A proposal on two distinct edges has passed the checkerboard test (u   *)
(* was drawn) and has been rejected by the draw                            *)
C19_Witness ==
  /\ entry = "simple_swap_n" /\ Less(Zero, swap_p) /\ Less(swap_p, <<1, 1>>)
  /\ k = 1 /\ gen = 3 /\ i # j
  /\ e_from = Re_from /\ e_to = Re_to

(* C20  Swap reversibility: right after a step has committed on (i,j), the *)
(* same pair (i,j) passes the checkerboard test, and committing it gives   *)
(* back the edge list, slot for slot, and the edge index as they were      *)
(* before the step.                                                        *)
C20_SwapReversibility ==
  [][(StepTaken /\ (Committed \/ did_swap')
        /\ (entry = "swap_n" => InputRespectsForbidden)) =>
       LET a2 == e_from'[i']
           b2 == e_to'[i']
           c2 == e_from'[j']
           d2 == e_to'[j']
       IN /\ i' # j'
          /\ e_from' # e_from /\ edgeSet' # edgeSet
          /\ ~FoundInEdgeSet(edgeSet', a2, b2, c2, d2)
          /\ SwapInEdgeList(e_from', i', j', a2, b2, c2, d2) = e_from
          /\ e_to' = e_to
          /\ SwapInHashSet(edgeSet', a2, b2, c2, d2) = edgeSet]_vars

(* A second commit on the same pair has undone the first *)
C20_Witness ==
  /\ k = 2 /\ gen = 6 /\ i # j
  /\ e_from = Re_from /\ e_to = Re_to
  /\ edgeSet = {EdgeAt(Re_from, Re_to, x) : x \in Slots}
  /\ entry = "swap_n" => (did_swap /\ InputRespectsForbidden)
  /\ entry = "simple_swap_n" => swap_p = <<1, 1>>
====
